---- MODULE Spec2Model ----
(***************************************************************************)
(* BriteTalent job-description backend (src/app.py, src/config/            *)
(* briteroles_config.py): the three generation endpoints, the draft/role   *)
(* store endpoints over the blob store, and the slug derivation.           *)
(*                                                                         *)
(* A Python str is modelled as a sequence of one-character strings, so     *)
(* that lower(), strip(), re.sub, split, replace, slicing and the          *)
(* lexicographic comparison of the sort keys are computed as Python        *)
(* computes them.  Fixed message texts are atomic strings.                 *)
(***************************************************************************)
EXTENDS Integers, Sequences, FiniteSets, TLC

VARIABLES
  claude_client,  \* app.py:93-99   TRUE iff ClaudeClient() was constructed
  gcs_client,     \* app.py:107-114 TRUE iff gcs_storage.Client() was constructed
  google_client_id, \* app.py:196 TRUE iff GOOGLE_CLIENT_ID is set (FALSE: dev mode)
  session,        \* the Flask session of the client: [user |-> ...] or empty
  store,          \* the bucket: blob name -> stored JSON document
  now,            \* the wall clock, in half hours after 2026-11-01T06:00Z
  req,            \* the request being / last handled
  resp,           \* the response produced for req
  calls,          \* the generate_content calls made while handling req, in order
  prompt,         \* the prompt formatted while handling req
  ops,            \* the bucket operations made while handling req, in order
  text,           \* an input of _slugify
  slug            \* the results computed from text

vars == <<claude_client, gcs_client, google_client_id, session, store, now, req, resp, calls, prompt, ops, text, slug>>

None == [none |-> TRUE]

(***************************************************************************)
(* Characters and Python string primitives                                 *)
(***************************************************************************)
LowerLetters == <<"a","b","c","d","e","f","g","h","i","j","k","l","m",
                  "n","o","p","q","r","s","t","u","v","w","x","y","z">>
UpperLetters == <<"A","B","C","D","E","F","G","H","I","J","K","L","M",
                  "N","O","P","Q","R","S","T","U","V","W","X","Y","Z">>
Digits == <<"0","1","2","3","4","5","6","7","8","9">>

Range(s) == {s[i] : i \in DOMAIN s}

\* str.lower() on one character
LowerChar(c) ==
  IF c \in Range(UpperLetters)
    THEN LowerLetters[CHOOSE i \in DOMAIN UpperLetters : UpperLetters[i] = c]
    ELSE c

\* str.lower()
Lower(s) == [i \in DOMAIN s |-> LowerChar(s[i])]

Whitespace == {" ", "\t", "\n", "\r"}

\* s.lstrip(chars) / s.rstrip(chars) / s.strip(chars)
RECURSIVE LStripChars(_, _)
LStripChars(s, cs) ==
  IF s # <<>> /\ Head(s) \in cs THEN LStripChars(Tail(s), cs) ELSE s

RECURSIVE RStripChars(_, _)
RStripChars(s, cs) ==
  IF s # <<>> /\ s[Len(s)] \in cs
    THEN RStripChars(SubSeq(s, 1, Len(s) - 1), cs)
    ELSE s

StripChars(s, cs) == RStripChars(LStripChars(s, cs), cs)

\* str.strip()
Strip(s) == StripChars(s, Whitespace)

\* s[:n]
Prefix(s, n) == IF Len(s) <= n THEN s ELSE SubSeq(s, 1, n)

\* the character class [a-z0-9] of the slug pattern
SlugChar(c) == c \in Range(LowerLetters) \cup Range(Digits)

\* re.sub(r'[^a-z0-9]+', '-', s): every maximal run of characters outside
\* [a-z0-9] becomes one hyphen
RECURSIVE SubNonAlnum(_)
SubNonAlnum(s) ==
  IF s = <<>> THEN <<>>
  ELSE IF SlugChar(Head(s)) THEN <<Head(s)>> \o SubNonAlnum(Tail(s))
  ELSE <<"-">> \o SubNonAlnum(LStripChars(s, {c \in Range(s) : ~SlugChar(c)}))

\* the truncation length of a slug
SlugLimit == 60

\* app.py:448-452
_slugify(t) == Prefix(StripChars(SubNonAlnum(Strip(Lower(t))), {"-"}), SlugLimit)

(***************************************************************************)
(* JSON bodies and dict access                                             *)
(***************************************************************************)
\* dict.get(key, default)
Get(data, key, default) == IF key \in DOMAIN data THEN data[key] ELSE default

\* the JSON objects that carry some of the keys, with values in vals
Dicts(keys, vals) == UNION {[present -> vals] : present \in SUBSET keys}

\* Python truthiness of a JSON flag
Truthy(v) == v = TRUE

\* request.get_json() (app.py:259, 329, 399): the parsed body, or the
\* framework's abort.  A body that is not valid JSON aborts with 400; a
\* request without a JSON body gives None or aborts with 415, depending on
\* the Flask release.
GetJson(body) ==
  CASE body.kind = "json"    -> {[data |-> body.data]}
    [] body.kind = "invalid" -> {[abort |-> 400]}
    [] body.kind = "absent"  -> {[data |-> None], [abort |-> 415]}

\* `not data` for a parsed body
Falsy(data) == data = None \/ DOMAIN data = {}

(***************************************************************************)
(* Template Engine: AI_PROMPTS and str.format                              *)
(***************************************************************************)
Lit(s) == [lit |-> s]     \* fixed text
Ph(n) == [ph |-> n]       \* a replacement field {n} of a template
Str(cs) == [str |-> cs]   \* text supplied by the caller

\* briteroles_config.py:116-185
PROMPT_generate_jd ==
  << Lit("Write a complete job description for the following role at BriteCo.\n\nROLE DETAILS:\n- Title: "),
     Ph("title"),
     Lit("\n- Department: "), Ph("department"),
     Lit("\n- Reports To: "), Ph("reports_to"),
     Lit("\n- Location: "), Ph("location"),
     Lit("\n- Experience Level: "), Ph("experience_level"),
     Lit("\n"), Ph("remote_line"),
     Lit("\nUSER'S NOTES ABOUT THE ROLE:\n"), Ph("notes"),
     Lit("\n\nGenerate the following sections in this exact order: [...] EXAMPLES OF PAST BRITECO JOB DESCRIPTIONS [...] ---") >>

\* briteroles_config.py:186-214
PROMPT_adapt_jd ==
  << Lit("You have been given an existing job description [...]\n\nORIGINAL JD:\n"),
     Ph("original_jd"),
     Lit("\n\nROLE DETAILS:\n- Title: "), Ph("title"),
     Lit("\n- Department: "), Ph("department"),
     Lit("\n- Reports To: "), Ph("reports_to"),
     Lit("\n- Location: "), Ph("location"),
     Lit("\n- Experience Level: "), Ph("experience_level"),
     Lit("\n"), Ph("remote_line"),
     Lit("\nADDITIONAL NOTES FROM HIRING MANAGER:\n"), Ph("notes"),
     Lit("\n\nINSTRUCTIONS: [...] ## Qualifications\n5-8 bullet points of required qualifications and experience.\n") >>

\* briteroles_config.py:215-223
PROMPT_rewrite_section ==
  << Lit("Rewrite the following section of a job description. Adjust the tone to be more "),
     Ph("tone"),
     Lit(".\n\nOriginal:\n"), Ph("content"),
     Lit("\n\nRequirements: [...] - Return ONLY the rewritten text, no extra labels or headers") >>

\* briteroles_config.py:115-224
AI_PROMPTS ==
  [generate_jd |-> PROMPT_generate_jd,
   adapt_jd |-> PROMPT_adapt_jd,
   rewrite_section |-> PROMPT_rewrite_section]

IsPh(tok) == "ph" \in DOMAIN tok

\* template.format(**kwargs): every replacement field is replaced by the
\* keyword argument of its name; a field without an argument raises KeyError
Format(template, kwargs) ==
  IF \E i \in DOMAIN template : IsPh(template[i]) /\ template[i].ph \notin DOMAIN kwargs
    THEN [raise |-> "KeyError"]
    ELSE [text |-> [i \in DOMAIN template |->
                      IF IsPh(template[i]) THEN kwargs[template[i].ph] ELSE template[i]]]

\* OrDefault without the fallback: the blank value is substituted
OrDefault_blank(cs, default) == Str(cs)

\* `value or default` on a stripped string
OrDefault(cs, default) == IF cs = <<>> THEN Lit(default) ELSE Str(cs)

\* data.get(key, '').strip()
Field(data, key) == Strip(Get(data, key, <<>>))

\* app.py:277-283
RemoteLineGenerate(is_remote, is_hybrid) ==
  IF Truthy(is_remote) THEN "- Work Type: Fully Remote\n"
  ELSE IF Truthy(is_hybrid) THEN "- Work Type: Hybrid (remote + in-office)\n"
  ELSE ""

\* RemoteLineAdapt with the two tests in the other order
RemoteLineAdapt_hybrid_first(is_remote, is_hybrid) ==
  IF Truthy(is_hybrid) THEN "- Work Type: Hybrid (remote + in-office)\n"
  ELSE IF Truthy(is_remote) THEN "- Work Type: Fully Remote\n"
  ELSE ""

\* app.py:348-353
RemoteLineAdapt(is_remote, is_hybrid) ==
  IF Truthy(is_remote) THEN "- Work Type: Fully Remote\n"
  ELSE IF Truthy(is_hybrid) THEN "- Work Type: Hybrid (remote + in-office)\n"
  ELSE ""

(***************************************************************************)
(* Generation Client: claude_client.generate_content(...) either returns a *)
(* result or raises with the upstream message.                             *)
(***************************************************************************)
UpstreamMessages == {"upstream unreachable", "upstream status 529", "malformed upstream response"}

FullResult ==
  [content |-> "generated text", model |-> "model-id", tokens |-> 7,
   cost_estimate |-> "$0.01", latency_ms |-> 3]

Outcomes ==
  {[result |-> FullResult], [result |-> [content |-> "generated text"]]}
  \cup {[raise |-> m] : m \in UpstreamMessages}

Raised(outcome) == "raise" \in DOMAIN outcome

(***************************************************************************)
(* Request handlers of the generation endpoints.  Each gives the response, *)
(* the number of generate_content calls it made and the prompt it built.   *)
(***************************************************************************)
\* log: the generate_content calls made, in order
Handled(status, body, log, p) == [resp |-> [status |-> status, body |-> body], calls |-> log, prompt |-> p]

\* one generate_content call: its arguments and what came back
Call(p, max_tokens, outcome) ==
  [prompt |-> p, system_prompt |-> "BRITEROLES_SYSTEM_PROMPT", temperature |-> "0.6",
   max_tokens |-> max_tokens, outcome |-> outcome]

JsonError(status, msg) == Handled(status, [error |-> msg], <<>>, None)

\* the framework's own error page for an abort raised in get_json()
Aborted(status) == Handled(status, [html |-> "framework error page"], <<>>, None)

\* an exception that escapes the view function: the framework's 500 page
Unhandled(exc) == Handled(500, [html |-> "Internal Server Error", exception |-> exc], <<>>, None)

\* the successful branch of the try block
Success(p, max_tokens, outcome, key) ==
  Handled(200,
          [k \in {key, "model", "tokens", "cost_estimate", "latency_ms"} |->
             CASE k = key             -> outcome.result["content"]
               [] k = "model"         -> Get(outcome.result, "model", "")
               [] k = "tokens"        -> Get(outcome.result, "tokens", 0)
               [] k = "cost_estimate" -> Get(outcome.result, "cost_estimate", "")
               [] k = "latency_ms"    -> Get(outcome.result, "latency_ms", 0)],
          <<Call(p, max_tokens, outcome)>>, p)

\* CallClient calling once more after a failure
CallClient_retry(p, max_tokens, outcome, key, prefix) ==
  IF Raised(outcome)
    THEN Handled(500, [error |-> <<prefix, outcome.raise>>],
                 <<Call(p, max_tokens, outcome), Call(p, max_tokens, outcome)>>, p)
    ELSE Success(p, max_tokens, outcome, key)

\* CallClient without the except clause
CallClient_uncaught(p, max_tokens, outcome, key, prefix) ==
  IF Raised(outcome)
    THEN Handled(500, [html |-> "Internal Server Error", exception |-> outcome.raise],
                 <<Call(p, max_tokens, outcome)>>, p)
    ELSE Success(p, max_tokens, outcome, key)

\* app.py:300-320, 370-390, 421-441: the try block around the single call
CallClient(p, max_tokens, outcome, key, prefix) ==
  IF Raised(outcome)
    THEN Handled(500, [error |-> <<prefix, outcome.raise>>], <<Call(p, max_tokens, outcome)>>, p)
    ELSE Success(p, max_tokens, outcome, key)

Unavailable == JsonError(503, <<"Claude AI is not available. Check ANTHROPIC_API_KEY.">>)

\* app.py:263-320: generate_jd once the body is parsed
generate_jd_fields(data, outcome) ==
  LET title == Field(data, "title")
      department == Field(data, "department")
      reports_to == Field(data, "reports_to")
      location == Field(data, "location")
      experience_level == Field(data, "experience_level")
      is_remote == Get(data, "is_remote", FALSE)
      is_hybrid == Get(data, "is_hybrid", FALSE)
      notes == Field(data, "notes")
  IN IF title = <<>> THEN JsonError(400, <<"Job title is required">>)
     ELSE
       LET p == Format(AI_PROMPTS.generate_jd,
                  [title |-> Str(title),
                   department |-> OrDefault(department, "Not specified"),
                   reports_to |-> OrDefault(reports_to, "Not specified"),
                   location |-> OrDefault(location, "Not specified"),
                   experience_level |-> OrDefault(experience_level, "Not specified"),
                   remote_line |-> Lit(RemoteLineGenerate(is_remote, is_hybrid)),
                   notes |-> OrDefault(notes, "No additional notes provided.")])
       IN IF "raise" \in DOMAIN p THEN Unhandled(p.raise)
          ELSE CallClient(p.text, 1500, outcome, "job_description", "AI generation failed: ")

\* generate_jd reading the body before it looks at the client
generate_jd_parse_first(available, parsed, outcome) ==
  IF "abort" \in DOMAIN parsed THEN Aborted(parsed.abort)
  ELSE IF Falsy(parsed.data) THEN JsonError(400, <<"Request body is required">>)
  ELSE IF ~available THEN Unavailable
  ELSE generate_jd_fields(parsed.data, outcome)

\* app.py:253-320
generate_jd(available, parsed, outcome) ==
  IF ~available THEN Unavailable
  ELSE IF "abort" \in DOMAIN parsed THEN Aborted(parsed.abort)
  ELSE IF Falsy(parsed.data) THEN JsonError(400, <<"Request body is required">>)
  ELSE generate_jd_fields(parsed.data, outcome)

\* app.py:323-390
adapt_jd(available, parsed, outcome) ==
  IF ~available THEN Unavailable
  ELSE IF "abort" \in DOMAIN parsed THEN Aborted(parsed.abort)
  ELSE IF Falsy(parsed.data) THEN JsonError(400, <<"Request body is required">>)
  ELSE
    LET data == parsed.data
        original_jd == Field(data, "original_jd")
        title == Field(data, "title")
        department == Field(data, "department")
        reports_to == Field(data, "reports_to")
        location == Field(data, "location")
        experience_level == Field(data, "experience_level")
        is_remote == Get(data, "is_remote", FALSE)
        is_hybrid == Get(data, "is_hybrid", FALSE)
        notes == Field(data, "notes")
    IN IF original_jd = <<>> THEN JsonError(400, <<"Original job description is required">>)
       ELSE IF title = <<>> THEN JsonError(400, <<"Job title is required">>)
       ELSE
         LET p == Format(AI_PROMPTS.adapt_jd,
                    [original_jd |-> Str(original_jd),
                     title |-> Str(title),
                     department |-> OrDefault(department, "Not specified"),
                     reports_to |-> OrDefault(reports_to, "Not specified"),
                     location |-> OrDefault(location, "Not specified"),
                     experience_level |-> OrDefault(experience_level, "Not specified"),
                     remote_line |-> Lit(RemoteLineAdapt(is_remote, is_hybrid)),
                     notes |-> OrDefault(notes, "No additional notes.")])
         IN IF "raise" \in DOMAIN p THEN Unhandled(p.raise)
            ELSE CallClient(p.text, 1500, outcome, "job_description", "AI adaptation failed: ")

\* app.py:393-441
rewrite_section(available, parsed, outcome) ==
  IF ~available THEN Unavailable
  ELSE IF "abort" \in DOMAIN parsed THEN Aborted(parsed.abort)
  ELSE IF Falsy(parsed.data) THEN JsonError(400, <<"Request body is required">>)
  ELSE
    LET data == parsed.data
        content == Field(data, "content")
        tone == Field(data, "tone")
    IN IF content = <<>> THEN JsonError(400, <<"Content is required">>)
       ELSE IF tone = <<>> THEN JsonError(400, <<"Tone is required">>)
       ELSE
         LET p == Format(AI_PROMPTS.rewrite_section,
                    [content |-> Str(content), tone |-> Str(tone)])
         IN IF "raise" \in DOMAIN p THEN Unhandled(p.raise)
            ELSE CallClient(p.text, 1000, outcome, "rewritten_content", "AI rewrite failed: ")

(***************************************************************************)
(* Timestamps: datetime.now(CHICAGO_TZ).isoformat()                        *)
(*                                                                         *)
(* The clock counts half hours from 2026-11-01T06:00Z.  Daylight saving    *)
(* time ends in America/Chicago that night at 07:00Z: 02:00 CDT becomes    *)
(* 01:00 CST.                                                              *)
(***************************************************************************)
MaxTime == 2

\* minutes after 2026-11-01T00:00Z
UtcMinutes(t) == 360 + 30 * t

\* pytz America/Chicago: the UTC offset in force, in hours west of UTC
ChicagoOffset(t) == IF UtcMinutes(t) < 420 THEN 5 ELSE 6

Pad2(n) == <<Digits[(n \div 10) + 1], Digits[(n % 10) + 1]>>

\* datetime.isoformat() of the local time with its offset
IsoFormat(t) ==
  LET local == UtcMinutes(t) - 60 * ChicagoOffset(t)
  IN <<"2","0","2","6","-","1","1","-","0","1","T">>
       \o Pad2(local \div 60) \o <<":">> \o Pad2(local % 60) \o <<":","0","0">>
       \o <<"-">> \o Pad2(ChicagoOffset(t)) \o <<":","0","0">>

\* the characters of the model in code point order
Ascii ==
  <<" ", "!", "-", ".", "/">> \o Digits \o <<":", "@">> \o UpperLetters \o LowerLetters

Ord(c) == CHOOSE i \in DOMAIN Ascii : Ascii[i] = c

\* a < b for Python strings
RECURSIVE StrLess(_, _)
StrLess(a, b) ==
  IF b = <<>> THEN FALSE
  ELSE IF a = <<>> THEN TRUE
  ELSE IF Head(a) = Head(b) THEN StrLess(Tail(a), Tail(b))
  ELSE Ord(Head(a)) < Ord(Head(b))

(***************************************************************************)
(* Blob store (google.cloud.storage) and blob names                        *)
(***************************************************************************)
DraftsPrefix == <<"d","r","a","f","t","s","/">>
SavedPrefix == <<"s","a","v","e","d","/">>
DotJson == <<".","j","s","o","n">>
Untitled == <<"u","n","t","i","t","l","e","d">>
Unknown == <<"u","n","k","n","o","w","n">>

\* s.split('@')[0]
BeforeAt(s) ==
  IF \E i \in DOMAIN s : s[i] = "@"
    THEN SubSeq(s, 1, (CHOOSE i \in DOMAIN s : s[i] = "@" /\ \A j \in 1..(i - 1) : s[j] # "@") - 1)
    ELSE s

\* s.replace('.', '-')
DotsToHyphens(s) == [i \in DOMAIN s |-> IF s[i] = "." THEN "-" ELSE s[i]]

\* app.py:463, 567
SavedBy(data) == DotsToHyphens(BeforeAt(Get(data, "savedBy", Unknown)))

\* app.py:464, 568, 587
BlobName(prefix, data) ==
  prefix \o _slugify(Get(data, "title", Untitled)) \o <<"-">> \o SavedBy(data) \o DotJson

StartsWith(s, pre) == Len(s) >= Len(pre) /\ SubSeq(s, 1, Len(pre)) = pre
EndsWith(s, suf) == Len(s) >= Len(suf) /\ SubSeq(s, Len(s) - Len(suf) + 1, Len(s)) = suf

\* the names in the set, in the order bucket.list_blobs gives them
RECURSIVE InNameOrder(_)
InNameOrder(names) ==
  IF names = {} THEN <<>>
  ELSE LET first == CHOOSE n \in names : \A m \in names \ {n} : StrLess(n, m)
       IN <<first>> \o InNameOrder(names \ {first})

\* one operation on the bucket made by a handler, with what came of it
Op(kind, name, result) == [op |-> kind, name |-> name, result |-> result]

NoFault(log) == \A i \in DOMAIN log : log[i].result # "raise"

(***************************************************************************)
(* Draft and role endpoints.  fault names the store operation that raises  *)
(* during the request, if any.  Each handler gives the response, the       *)
(* store afterwards and the store operations it made.                      *)
(***************************************************************************)
Stored(status, body, st, log) == [resp |-> [status |-> status, body |-> body], store |-> st, ops |-> log]

\* blob.upload_from_string(json.dumps(doc)): the blob holds the document
Upload(st, name, doc) == [n \in DOMAIN st \cup {name} |-> IF n = name THEN doc ELSE st[n]]

\* blob.delete()
Delete(st, name) == [n \in DOMAIN st \ {name} |-> st[n]]

\* app.py:466-477
DraftDoc(data, t) ==
  [title |-> Get(data, "title", Untitled),
   roleData |-> Get(data, "roleData", None),
   lastSavedBy |-> Get(data, "savedBy", Unknown),
   lastSavedAt |-> IsoFormat(t)]

\* app.py:570-579
RoleDoc(data, t) ==
  [title |-> Get(data, "title", Untitled),
   roleData |-> Get(data, "roleData", None),
   lastSavedBy |-> Get(data, "savedBy", Unknown),
   lastSavedAt |-> IsoFormat(t)]

\* the except clause of the save and load handlers
StoreError(st, log, exc) == Stored(500, [success |-> FALSE, error |-> exc], st, log)

StoreUnavailable(st) == Stored(503, [success |-> FALSE, error |-> "GCS not available"], st, <<>>)

\* app.py:455-487
save_draft(available, st, body, t, fault) ==
  IF ~available THEN StoreUnavailable(st)
  ELSE IF body.kind # "json" THEN StoreError(st, <<>>, "no JSON object in the request")
  ELSE
    LET data == body.data
        blob_name == BlobName(DraftsPrefix, data)
    IN IF fault = "upload"
         THEN StoreError(st, <<Op("upload", blob_name, "raise")>>, "upload failed")
         ELSE Stored(200, [success |-> TRUE, file |-> blob_name],
                     Upload(st, blob_name, DraftDoc(data, t)),
                     <<Op("upload", blob_name, "ok")>>)

\* save_role without the clean-up of the draft
save_role_keep_draft(available, st, body, t, fault) ==
  IF ~available THEN StoreUnavailable(st)
  ELSE IF body.kind # "json" THEN StoreError(st, <<>>, "no JSON object in the request")
  ELSE
    LET data == body.data
        blob_name == BlobName(SavedPrefix, data)
    IN IF fault = "upload"
         THEN StoreError(st, <<Op("upload", blob_name, "raise")>>, "upload failed")
         ELSE Stored(200, [success |-> TRUE, file |-> blob_name],
                     Upload(st, blob_name, RoleDoc(data, t)),
                     <<Op("upload", blob_name, "ok")>>)

\* app.py:559-597
save_role(available, st, body, t, fault) ==
  IF ~available THEN StoreUnavailable(st)
  ELSE IF body.kind # "json" THEN StoreError(st, <<>>, "no JSON object in the request")
  ELSE
    LET data == body.data
        blob_name == BlobName(SavedPrefix, data)
        draft_name == BlobName(DraftsPrefix, data)
        saved == Upload(st, blob_name, RoleDoc(data, t))
        uploaded == <<Op("upload", blob_name, "ok")>>
    IN IF fault = "upload"
         THEN StoreError(st, <<Op("upload", blob_name, "raise")>>, "upload failed")
       ELSE IF fault = "exists"
         THEN StoreError(saved, uploaded \o <<Op("exists", draft_name, "raise")>>, "exists failed")
       ELSE IF draft_name \notin DOMAIN saved
         THEN Stored(200, [success |-> TRUE, file |-> blob_name], saved,
                     uploaded \o <<Op("exists", draft_name, "missing")>>)
       ELSE IF fault = "delete"
         THEN StoreError(saved,
                         uploaded \o <<Op("exists", draft_name, "found"), Op("delete", draft_name, "raise")>>,
                         "delete failed")
       ELSE Stored(200, [success |-> TRUE, file |-> blob_name],
                   Delete(saved, draft_name),
                   uploaded \o <<Op("exists", draft_name, "found"), Op("delete", draft_name, "ok")>>)

\* the key of list.sort: d.get('lastSavedAt', '')
SortKey(d) == d.lastSavedAt

\* where d goes into a list sorted with reverse=True: behind every entry
\* whose key is not smaller, so that equal keys keep their order
RECURSIVE InsertDesc(_, _)
InsertDesc(sorted, d) ==
  IF sorted = <<>> THEN <<d>>
  ELSE IF StrLess(SortKey(Head(sorted)), SortKey(d)) THEN <<d>> \o sorted
  ELSE <<Head(sorted)>> \o InsertDesc(Tail(sorted), d)

\* list.sort(key=..., reverse=True)
RECURSIVE SortDesc(_)
SortDesc(l) ==
  IF l = <<>> THEN <<>>
  ELSE InsertDesc(SortDesc(SubSeq(l, 1, Len(l) - 1)), l[Len(l)])

\* the .json blobs under the prefix, as list_blobs gives them
Listed(st, prefix) ==
  InNameOrder({n \in DOMAIN st : StartsWith(n, prefix) /\ EndsWith(n, DotJson)})

\* the smallest index of a non-empty set of indices
First(indices) == CHOOSE i \in indices : \A j \in indices : i <= j

\* json.loads(blob.download_as_text()) raises: the blob is not a JSON document
NotJson(doc) == "invalid" \in DOMAIN doc

\* the record of a draft cannot be built from the blob
DraftUnreadable(doc) == NotJson(doc)

\* the record of a role cannot be built from the blob: rd is None when the
\* document carries "roleData": null, and rd.get raises
RoleUnreadable(doc) == NotJson(doc) \/ ("roleData" \in DOMAIN doc /\ doc.roleData = None)

\* app.py:502-508
DraftEntry(doc, name) ==
  [title |-> Get(doc, "title", Untitled),
   lastSavedBy |-> Get(doc, "lastSavedBy", None),
   lastSavedAt |-> Get(doc, "lastSavedAt", None),
   filename |-> name]

\* app.py:613-619
RoleEntry(doc, name) ==
  [title |-> Get(doc, "title", Untitled),
   department |-> Get(Get(doc, "roleData", <<>>), "department", <<>>),
   lastSavedBy |-> Get(doc, "lastSavedBy", None),
   lastSavedAt |-> Get(doc, "lastSavedAt", None),
   filename |-> name]

\* list.sort compares the keys when there are two entries or more, and
\* comparing None with a str or with None raises TypeError
SortRaises(l) == Len(l) >= 2 /\ \E i \in DOMAIN l : SortKey(l[i]) = None

\* list_drafts leaving out the blobs it cannot read
list_drafts_skipping(available, st, fault) ==
  IF ~available THEN Stored(200, [success |-> TRUE, drafts |-> <<>>], st, <<>>)
  ELSE IF fault = "list"
    THEN Stored(200, [success |-> TRUE, drafts |-> <<>>], st, <<Op("list", DraftsPrefix, "raise")>>)
  ELSE
    LET names == Listed(st, DraftsPrefix)
        listing == <<Op("list", DraftsPrefix, "ok")>>
        downloads == [i \in DOMAIN names |-> Op("download", names[i], "ok")]
        readable == SelectSeq(names, LAMBDA n : ~DraftUnreadable(st[n]))
        entries == [i \in DOMAIN readable |-> DraftEntry(st[readable[i]], readable[i])]
    IN IF fault = "download" /\ names # <<>>
         THEN Stored(200, [success |-> TRUE, drafts |-> <<>>], st,
                     listing \o <<Op("download", names[1], "raise")>>)
       ELSE IF SortRaises(entries)
         THEN Stored(200, [success |-> TRUE, drafts |-> <<>>], st, listing \o downloads)
       ELSE Stored(200, [success |-> TRUE, drafts |-> SortDesc(entries)], st,
                   listing \o downloads)

\* app.py:490-514
list_drafts(available, st, fault) ==
  IF ~available THEN Stored(200, [success |-> TRUE, drafts |-> <<>>], st, <<>>)
  ELSE IF fault = "list"
    THEN Stored(200, [success |-> TRUE, drafts |-> <<>>], st, <<Op("list", DraftsPrefix, "raise")>>)
  ELSE
    LET names == Listed(st, DraftsPrefix)
        listing == <<Op("list", DraftsPrefix, "ok")>>
        downloads == [i \in DOMAIN names |-> Op("download", names[i], "ok")]
        unreadable == {i \in DOMAIN names : DraftUnreadable(st[names[i]])}
        entries == [i \in DOMAIN names |-> DraftEntry(st[names[i]], names[i])]
    IN IF fault = "download" /\ names # <<>>
         THEN Stored(200, [success |-> TRUE, drafts |-> <<>>], st,
                     listing \o <<Op("download", names[1], "raise")>>)
       ELSE IF unreadable # {}
         THEN Stored(200, [success |-> TRUE, drafts |-> <<>>], st,
                     listing \o SubSeq(downloads, 1, First(unreadable)))
       ELSE IF SortRaises(entries)
         THEN Stored(200, [success |-> TRUE, drafts |-> <<>>], st, listing \o downloads)
       ELSE Stored(200, [success |-> TRUE, drafts |-> SortDesc(entries)], st,
                   listing \o downloads)

\* app.py:600-625
list_saved_roles(available, st, fault) ==
  IF ~available THEN Stored(200, [success |-> TRUE, roles |-> <<>>], st, <<>>)
  ELSE IF fault = "list"
    THEN Stored(200, [success |-> TRUE, roles |-> <<>>], st, <<Op("list", SavedPrefix, "raise")>>)
  ELSE
    LET names == Listed(st, SavedPrefix)
        listing == <<Op("list", SavedPrefix, "ok")>>
        downloads == [i \in DOMAIN names |-> Op("download", names[i], "ok")]
        unreadable == {i \in DOMAIN names : RoleUnreadable(st[names[i]])}
        entries == [i \in DOMAIN names |-> RoleEntry(st[names[i]], names[i])]
    IN IF fault = "download" /\ names # <<>>
         THEN Stored(200, [success |-> TRUE, roles |-> <<>>], st,
                     listing \o <<Op("download", names[1], "raise")>>)
       ELSE IF unreadable # {}
         THEN Stored(200, [success |-> TRUE, roles |-> <<>>], st,
                     listing \o SubSeq(downloads, 1, First(unreadable)))
       ELSE IF SortRaises(entries)
         THEN Stored(200, [success |-> TRUE, roles |-> <<>>], st, listing \o downloads)
       ELSE Stored(200, [success |-> TRUE, roles |-> SortDesc(entries)], st,
                   listing \o downloads)

\* `not filename` for request.json.get('file') / request.args.get('file')
NoFile(params) == "file" \notin DOMAIN params \/ params["file"] = <<>>

Swallowed(st, log) == Stored(200, [success |-> TRUE], st, log)

\* delete_draft passing a store error on to the caller
delete_draft_surfacing(available, st, body, fault) ==
  IF ~available THEN Swallowed(st, <<>>)
  ELSE IF body.kind # "json" THEN Swallowed(st, <<>>)
  ELSE IF NoFile(body.data)
    THEN Stored(400, [success |-> FALSE, error |-> "No file specified"], st, <<>>)
  ELSE
    LET filename == body.data["file"]
    IN IF fault = "exists" THEN StoreError(st, <<Op("exists", filename, "raise")>>, "exists failed")
       ELSE IF filename \notin DOMAIN st THEN Swallowed(st, <<Op("exists", filename, "missing")>>)
       ELSE IF fault = "delete"
         THEN StoreError(st, <<Op("exists", filename, "found"), Op("delete", filename, "raise")>>,
                         "delete failed")
       ELSE Swallowed(Delete(st, filename),
                      <<Op("exists", filename, "found"), Op("delete", filename, "ok")>>)

\* app.py:535-552
delete_draft(available, st, body, fault) ==
  IF ~available THEN Swallowed(st, <<>>)
  ELSE IF body.kind # "json" THEN Swallowed(st, <<>>)
  ELSE IF NoFile(body.data)
    THEN Stored(400, [success |-> FALSE, error |-> "No file specified"], st, <<>>)
  ELSE
    LET filename == body.data["file"]
    IN IF fault = "exists" THEN Swallowed(st, <<Op("exists", filename, "raise")>>)
       ELSE IF filename \notin DOMAIN st THEN Swallowed(st, <<Op("exists", filename, "missing")>>)
       ELSE IF fault = "delete"
         THEN Swallowed(st, <<Op("exists", filename, "found"), Op("delete", filename, "raise")>>)
       ELSE Swallowed(Delete(st, filename),
                      <<Op("exists", filename, "found"), Op("delete", filename, "ok")>>)

\* app.py:648-665
delete_saved_role(available, st, body, fault) ==
  IF ~available THEN Swallowed(st, <<>>)
  ELSE IF body.kind # "json" THEN Swallowed(st, <<>>)
  ELSE IF NoFile(body.data)
    THEN Stored(400, [success |-> FALSE, error |-> "No file specified"], st, <<>>)
  ELSE
    LET filename == body.data["file"]
    IN IF fault = "exists" THEN Swallowed(st, <<Op("exists", filename, "raise")>>)
       ELSE IF filename \notin DOMAIN st THEN Swallowed(st, <<Op("exists", filename, "missing")>>)
       ELSE IF fault = "delete"
         THEN Swallowed(st, <<Op("exists", filename, "found"), Op("delete", filename, "raise")>>)
       ELSE Swallowed(Delete(st, filename),
                      <<Op("exists", filename, "found"), Op("delete", filename, "ok")>>)

\* load_draft testing the file parameter before the store client
load_draft_param_first(available, st, args, fault) ==
  IF NoFile(args)
    THEN Stored(400, [success |-> FALSE, error |-> "No file specified"], st, <<>>)
  ELSE IF ~available THEN StoreUnavailable(st)
  ELSE
    LET filename == args["file"]
    IN IF fault = "download" THEN StoreError(st, <<Op("download", filename, "raise")>>, "download failed")
       ELSE IF filename \notin DOMAIN st
         THEN StoreError(st, <<Op("download", filename, "raise")>>, "404 No such object")
       ELSE Stored(200, [success |-> TRUE, draft |-> st[filename]], st,
                   <<Op("download", filename, "ok")>>)

\* app.py:517-532
load_draft(available, st, args, fault) ==
  IF ~available THEN StoreUnavailable(st)
  ELSE IF NoFile(args)
    THEN Stored(400, [success |-> FALSE, error |-> "No file specified"], st, <<>>)
  ELSE
    LET filename == args["file"]
    IN IF fault = "download" THEN StoreError(st, <<Op("download", filename, "raise")>>, "download failed")
       ELSE IF filename \notin DOMAIN st
         THEN StoreError(st, <<Op("download", filename, "raise")>>, "404 No such object")
       ELSE Stored(200, [success |-> TRUE, draft |-> st[filename]], st,
                   <<Op("download", filename, "ok")>>)

\* app.py:628-645
load_saved_role(available, st, args, fault) ==
  IF ~available THEN StoreUnavailable(st)
  ELSE IF NoFile(args)
    THEN Stored(400, [success |-> FALSE, error |-> "No file specified"], st, <<>>)
  ELSE
    LET filename == args["file"]
    IN IF fault = "exists" THEN StoreError(st, <<Op("exists", filename, "raise")>>, "exists failed")
       ELSE IF filename \notin DOMAIN st
         THEN Stored(404, [success |-> FALSE, error |-> "Not found"], st,
                     <<Op("exists", filename, "missing")>>)
       ELSE IF fault = "download"
         THEN StoreError(st, <<Op("exists", filename, "found"), Op("download", filename, "raise")>>,
                         "download failed")
       ELSE Stored(200, [success |-> TRUE, role |-> st[filename]], st,
                   <<Op("exists", filename, "found"), Op("download", filename, "ok")>>)

(***************************************************************************)
(* The service: requests to the draft and role endpoints arrive in any     *)
(* order, one at a time, while the clock advances.                         *)
(***************************************************************************)
MaxBlobs == 2

Titles == {<<"a">>, <<"a", " ", "b">>}
SavedBys == {<<"c", "@", "x">>, <<"b", ".", "c", "@", "x">>}
RoleData == [department |-> <<"Q", "A">>]

\* the JSON bodies of save-draft and save-role: title, savedBy and roleData
\* sent, or none of them
SaveDicts ==
  {[title |-> ti, savedBy |-> by, roleData |-> RoleData] : ti \in Titles, by \in SavedBys}
  \cup {<<>>}

SaveBodies == {[kind |-> "json", data |-> d] : d \in SaveDicts} \cup {[kind |-> "absent"]}

\* the values of a file parameter: names the save endpoints write
FileParams ==
  {BlobName(DraftsPrefix, d) : d \in SaveDicts} \cup {BlobName(SavedPrefix, d) : d \in SaveDicts}

DeleteBodies ==
  {[kind |-> "json", data |-> d] : d \in Dicts({"file"}, FileParams \cup {<<>>})}
  \cup {[kind |-> "absent"]}

LoadArgs == Dicts({"file"}, FileParams \cup {<<>>})

Init ==
  /\ claude_client = TRUE
  /\ gcs_client \in BOOLEAN
  /\ google_client_id = TRUE
  /\ session = None
  /\ store = <<>>
  /\ now = 0
  /\ req = None
  /\ resp = None
  /\ calls = <<>>
  /\ prompt = None
  /\ ops = <<>>
  /\ text = <<>>
  /\ slug = None

\* the request r is answered as the handler result h says
Serve(r, h) ==
  /\ resp = None
  /\ Cardinality(DOMAIN h.store) <= MaxBlobs
  /\ req' = r
  /\ resp' = h.resp
  /\ store' = h.store
  /\ ops' = h.ops
  /\ calls' = <<>>
  /\ prompt' = None
  /\ UNCHANGED <<claude_client, gcs_client, google_client_id, session, now, text, slug>>

\* POST /api/save-draft
SaveDraft ==
  \E body \in SaveBodies, fault \in {"none", "upload"} :
    Serve([endpoint |-> "save-draft", body |-> body],
          save_draft(gcs_client, store, body, now, fault))

\* POST /api/save-role
SaveRole ==
  \E body \in SaveBodies, fault \in {"none", "upload", "exists", "delete"} :
    Serve([endpoint |-> "save-role", body |-> body],
          save_role(gcs_client, store, body, now, fault))

\* GET /api/list-drafts
ListDrafts ==
  \E fault \in {"none", "list", "download"} :
    Serve([endpoint |-> "list-drafts"], list_drafts(gcs_client, store, fault))

\* GET /api/list-saved-roles
ListSavedRoles ==
  \E fault \in {"none", "list", "download"} :
    Serve([endpoint |-> "list-saved-roles"], list_saved_roles(gcs_client, store, fault))

\* GET /api/load-draft
LoadDraft ==
  \E args \in LoadArgs, fault \in {"none", "download"} :
    Serve([endpoint |-> "load-draft", args |-> args], load_draft(gcs_client, store, args, fault))

\* GET /api/load-saved-role
LoadSavedRole ==
  \E args \in LoadArgs, fault \in {"none", "exists", "download"} :
    Serve([endpoint |-> "load-saved-role", args |-> args],
          load_saved_role(gcs_client, store, args, fault))

\* DELETE /api/delete-draft
DeleteDraft ==
  \E body \in DeleteBodies, fault \in {"none", "exists", "delete"} :
    Serve([endpoint |-> "delete-draft", body |-> body],
          delete_draft(gcs_client, store, body, fault))

\* DELETE /api/delete-saved-role
DeleteSavedRole ==
  \E body \in DeleteBodies, fault \in {"none", "exists", "delete"} :
    Serve([endpoint |-> "delete-saved-role", body |-> body],
          delete_saved_role(gcs_client, store, body, fault))

\* the response is sent; the server waits for the next request
Return ==
  /\ resp # None
  /\ req' = None
  /\ resp' = None
  /\ ops' = <<>>
  /\ calls' = <<>>
  /\ prompt' = None
  /\ UNCHANGED <<claude_client, gcs_client, google_client_id, session, store, now, text, slug>>

\* time passes between two requests
Tick ==
  /\ resp = None
  /\ now < MaxTime
  /\ now' = now + 1
  /\ UNCHANGED <<claude_client, gcs_client, google_client_id, session, store, req, resp, calls, prompt, ops, text, slug>>

Next ==
  \/ SaveDraft \/ SaveRole \/ ListDrafts \/ ListSavedRoles
  \/ LoadDraft \/ LoadSavedRole \/ DeleteDraft \/ DeleteSavedRole
  \/ Return \/ Tick

Spec == Init /\ [][Next]_vars

(***************************************************************************)
(* The generation endpoints on their own: Init draws the state of the      *)
(* Generation Client and a request; the handler of the request's endpoint  *)
(* answers it.                                                             *)
(***************************************************************************)
\* a text field of a body, when sent: empty, blank, or text with trailing blank
FieldVals == {<<>>, <<" ">>, <<"x", " ">>}

\* the two flags of a body: sent as booleans, or not sent
FlagDicts == [{"is_remote", "is_hybrid"} -> BOOLEAN] \cup {<<>>}

OptionalFields == {"department", "reports_to", "location", "experience_level", "notes"}

\* the optional fields of a body: any of them sent, blank or with text, or
\* any of them sent empty
OptionalDicts ==
  Dicts(OptionalFields, {<<" ">>, <<"x", " ">>}) \cup Dicts(OptionalFields, {<<>>})

NoJsonBodies == {[kind |-> "absent"], [kind |-> "invalid"]}

RoleBodies(required) ==
  {[kind |-> "json", data |-> r @@ o @@ fl] :
     r \in Dicts(required, FieldVals), o \in OptionalDicts, fl \in FlagDicts}

RewriteBodies == {[kind |-> "json", data |-> r] : r \in Dicts({"content", "tone"}, FieldVals)}

GenRequests ==
  {[endpoint |-> "generate-jd", body |-> b] : b \in NoJsonBodies \cup RoleBodies({"title"})}
  \cup {[endpoint |-> "adapt-jd", body |-> b] :
          b \in NoJsonBodies \cup RoleBodies({"original_jd", "title"})}
  \cup {[endpoint |-> "rewrite-section", body |-> b] : b \in NoJsonBodies \cup RewriteBodies}

\* a session after a sign-in (app.py:169-174)
SignedIn ==
  [user |-> [email |-> <<"c", "@", "b", "r", "i", "t", "e", ".", "c", "o">>,
             name |-> <<"C">>, picture |-> <<>>]]

\* a bucket that holds one draft
OneDraft ==
  LET d == [title |-> <<"a">>, savedBy |-> <<"c", "@", "x">>, roleData |-> RoleData]
  IN Upload(<<>>, BlobName(DraftsPrefix, d), DraftDoc(d, 0))

InitGen ==
  /\ claude_client \in BOOLEAN
  /\ gcs_client = TRUE
  /\ google_client_id = TRUE
  /\ session = SignedIn
  /\ store = OneDraft
  /\ now = 0
  /\ req \in GenRequests
  /\ resp = None
  /\ calls = <<>>
  /\ prompt = None
  /\ ops = <<>>
  /\ text = <<>>
  /\ slug = None

Answer(h) ==
  /\ resp' = h.resp
  /\ calls' = h.calls
  /\ prompt' = h.prompt
  /\ UNCHANGED <<claude_client, gcs_client, google_client_id, session, store, now, req, ops, text, slug>>

\* POST /api/generate-jd
GenerateJd ==
  /\ resp = None
  /\ req.endpoint = "generate-jd"
  /\ \E parsed \in GetJson(req.body), outcome \in Outcomes :
       Answer(generate_jd(claude_client, parsed, outcome))

\* POST /api/adapt-jd
AdaptJd ==
  /\ resp = None
  /\ req.endpoint = "adapt-jd"
  /\ \E parsed \in GetJson(req.body), outcome \in Outcomes :
       Answer(adapt_jd(claude_client, parsed, outcome))

\* POST /api/rewrite-section
RewriteSection ==
  /\ resp = None
  /\ req.endpoint = "rewrite-section"
  /\ \E parsed \in GetJson(req.body), outcome \in Outcomes :
       Answer(rewrite_section(claude_client, parsed, outcome))

NextGen == GenerateJd \/ AdaptJd \/ RewriteSection

SpecGen == InitGen /\ [][NextGen]_vars

(***************************************************************************)
(* Properties of the generation endpoints                                  *)
(***************************************************************************)
GenEndpoints == {"generate-jd", "adapt-jd", "rewrite-section"}

Answered == resp # None /\ req # None /\ req.endpoint \in GenEndpoints

HasJson == req.body.kind = "json"

\* the field is absent from the body, empty, or made of blanks only
Blank(data, k) == k \notin DOMAIN data \/ \A i \in DOMAIN data[k] : data[k][i] = " "

RequiredFields(endpoint) ==
  CASE endpoint = "generate-jd"     -> {"title"}
    [] endpoint = "adapt-jd"        -> {"original_jd", "title"}
    [] endpoint = "rewrite-section" -> {"content", "tone"}

MissingRequired == {k \in RequiredFields(req.endpoint) : Blank(req.body.data, k)}

\* the fields an error message names
NamedBy(msg) ==
  CASE msg = <<"Job title is required">>                -> {"title"}
    [] msg = <<"Original job description is required">> -> {"original_jd"}
    [] msg = <<"Content is required">>                  -> {"content"}
    [] msg = <<"Tone is required">>                     -> {"tone"}
    [] OTHER                                            -> {}

\* C1: whenever the Generation Client is unavailable, each of generate-jd,
\* adapt-jd and rewrite-section answers 503 with a body {error: <message>},
\* whatever the request body is (valid, invalid, empty or absent), and no
\* call to the client is made.
C1_UnavailableIs503 ==
  (Answered /\ ~claude_client) =>
     /\ resp.status = 503
     /\ DOMAIN resp.body = {"error"}
     /\ calls = <<>>

C1_Witness ==
  /\ Answered /\ ~claude_client
  /\ req.endpoint = "generate-jd"
  /\ req.body.kind = "invalid"
  /\ resp.status = 503

\* C2: with the Generation Client available, every request whose JSON body
\* lacks a required field (absent, empty or blank), the body {} included,
\* is answered 400 with an error message that names the missing field.
C2_MissingFieldIs400Named ==
  (Answered /\ claude_client /\ HasJson /\ MissingRequired # {}) =>
     /\ resp.status = 400
     /\ "error" \in DOMAIN resp.body
     /\ NamedBy(resp.body.error) \cap MissingRequired # {}

\* the part of C2 that holds: the status is 400, and the message names the
\* missing field whenever the body carries at least one key
C2_MissingFieldIs400 ==
  (Answered /\ claude_client /\ HasJson /\ MissingRequired # {}) =>
     /\ resp.status = 400
     /\ "error" \in DOMAIN resp.body
     /\ DOMAIN req.body.data # {} => NamedBy(resp.body.error) \cap MissingRequired # {}

\* the work-type line the flags of a body call for
WorkTypeLines ==
  {"- Work Type: Fully Remote\n", "- Work Type: Hybrid (remote + in-office)\n", ""}

WorkType(data) ==
  IF Get(data, "is_remote", FALSE) = TRUE THEN "- Work Type: Fully Remote\n"
  ELSE IF Get(data, "is_hybrid", FALSE) = TRUE THEN "- Work Type: Hybrid (remote + in-office)\n"
  ELSE ""

Template(endpoint) ==
  CASE endpoint = "generate-jd"     -> AI_PROMPTS.generate_jd
    [] endpoint = "adapt-jd"        -> AI_PROMPTS.adapt_jd
    [] endpoint = "rewrite-section" -> AI_PROMPTS.rewrite_section

\* where the template of the endpoint has the replacement field {name}
PhAt(endpoint, name) ==
  CHOOSE i \in DOMAIN Template(endpoint) : Template(endpoint)[i] = Ph(name)

RoleEndpoints == {"generate-jd", "adapt-jd"}

\* C3: in generate-jd and adapt-jd the work-type line depends on the two
\* flags only: is_remote gives "- Work Type: Fully Remote\n" whatever
\* is_hybrid is, is_hybrid alone gives "- Work Type: Hybrid (remote +
\* in-office)\n", neither gives the empty string; exactly one of the three
\* values is put into the prompt, and both endpoints compute the same value
\* for the same flags.
C3_WorkTypeLine ==
  /\ (Answered /\ req.endpoint \in RoleEndpoints /\ prompt # None) =>
        /\ prompt[PhAt(req.endpoint, "remote_line")] = Lit(WorkType(req.body.data))
        /\ {i \in DOMAIN prompt : prompt[i] \in {Lit(w) : w \in WorkTypeLines}}
             = {PhAt(req.endpoint, "remote_line")}
  /\ \A r \in BOOLEAN, h \in BOOLEAN : RemoteLineGenerate(r, h) = RemoteLineAdapt(r, h)

C3_Witness ==
  /\ Answered /\ req.endpoint = "adapt-jd" /\ prompt # None
  /\ Get(req.body.data, "is_remote", FALSE) = TRUE
  /\ Get(req.body.data, "is_hybrid", FALSE) = TRUE
  /\ prompt[PhAt("adapt-jd", "remote_line")] = Lit("- Work Type: Fully Remote\n")

\* a generate or adapt request that passes validation
ValidRole ==
  /\ Answered /\ claude_client /\ HasJson
  /\ req.endpoint \in RoleEndpoints
  /\ MissingRequired = {}

AllOptionalBlank == \A k \in OptionalFields : Blank(req.body.data, k)

\* the default strings the specification documents
DocumentedDefault(k) ==
  IF k = "notes" THEN "No additional notes provided." ELSE "Not specified"

\* the default strings per endpoint
EndpointDefault(endpoint, k) ==
  IF k # "notes" THEN "Not specified"
  ELSE IF endpoint = "generate-jd" THEN "No additional notes provided."
  ELSE "No additional notes."

Substituted(default(_)) ==
  /\ "exception" \notin DOMAIN resp.body
  /\ prompt # None
  /\ \A i \in DOMAIN prompt : ~IsPh(prompt[i])
  /\ \A k \in OptionalFields : prompt[PhAt(req.endpoint, k)] = Lit(default(k))

\* C4 as stated: for generate and adapt requests with the required fields
\* present and every optional field absent, empty or blank, formatting does
\* not raise, no replacement field is left in the prompt, and every optional
\* field is replaced by "Not specified", notes by "No additional notes
\* provided.".
C4_DocumentedDefaults ==
  (ValidRole /\ AllOptionalBlank) => Substituted(DocumentedDefault)

\* C4, amended: the same, with notes replaced by "No additional notes
\* provided." in generate-jd and by "No additional notes." in adapt-jd.
C4_EndpointDefaults ==
  (ValidRole /\ AllOptionalBlank) =>
     LET default(k) == EndpointDefault(req.endpoint, k) IN Substituted(default)

C4_Witness ==
  /\ ValidRole /\ AllOptionalBlank
  /\ req.endpoint = "adapt-jd"
  /\ "notes" \in DOMAIN req.body.data /\ req.body.data["notes"] = <<" ">>
  /\ "location" \notin DOMAIN req.body.data
  /\ prompt # None
  /\ prompt[PhAt("adapt-jd", "notes")] = Lit("No additional notes.")

\* the request is turned down before the client is reached
Rejected == ~claude_client \/ ~HasJson \/ MissingRequired # {}

\* C5: the number of Generation Client calls made for a request is 0 when
\* the request is rejected (client unavailable, no body, or a required field
\* missing) and 1 otherwise; a failed call is never followed by another call
\* for the same request.
C5_OneCall ==
  Answered =>
     /\ Len(calls) = IF Rejected THEN 0 ELSE 1
     /\ \A i \in DOMAIN calls : Raised(calls[i].outcome) => i = Len(calls)

C5_Witness ==
  /\ Answered /\ ~Rejected
  /\ req.endpoint = "generate-jd"
  /\ Len(calls) = 1
  /\ Raised(calls[1].outcome)

\* C6: when the Generation Client call fails, whatever the upstream reason,
\* the handler answers 500 with a body {error: <message>} whose message
\* carries the upstream message; the failure is not left unhandled, and the
\* store and the session are as they were before the request.
C6_FailureIs500 ==
  [][ (resp' # None /\ calls' # <<>> /\ Raised(calls'[Len(calls')].outcome)) =>
        /\ resp'.status = 500
        /\ DOMAIN resp'.body = {"error"}
        /\ calls'[Len(calls')].outcome.raise \in Range(resp'.body.error)
        /\ store' = store
        /\ session' = session ]_vars

C6_Witness ==
  /\ Answered
  /\ req.endpoint = "rewrite-section"
  /\ calls # <<>> /\ Raised(calls[1].outcome)
  /\ calls[1].outcome.raise = "malformed upstream response"
  /\ resp.status = 500

(***************************************************************************)
(* Properties of the draft and role endpoints                              *)
(***************************************************************************)
Served(endpoints) == req # None /\ resp # None /\ req.endpoint \in endpoints

\* the names of the blobs a listing response carries, in its order
Filenames(entries) == [i \in DOMAIN entries |-> entries[i].filename]

\* the draft with the derived slug of the save-role request
PromotedDraft == BlobName(DraftsPrefix, req.body.data)

\* C8: after a save-role for title T and submitter S has gone through, the
\* draft with the same derived slug, if there was one, is no longer in the
\* store and list-drafts no longer returns it; when there was none, save-role
\* succeeds all the same.
C8_PromotionDeletesDraft ==
  (Served({"save-role"}) /\ req.body.kind = "json") =>
     /\ resp.body.success = TRUE =>
          /\ PromotedDraft \notin DOMAIN store
          /\ PromotedDraft \notin
               Range(Filenames(list_drafts(gcs_client, store, "none").resp.body.drafts))
     /\ (gcs_client /\ NoFault(ops)) => (resp.status = 200 /\ resp.body.success = TRUE)

C8_Witness ==
  /\ Served({"save-role"}) /\ req.body.kind = "json"
  /\ resp.body.success = TRUE
  /\ \E i \in DOMAIN ops : ops[i] = Op("delete", PromotedDraft, "ok")
  /\ \E n \in DOMAIN store : StartsWith(n, DraftsPrefix)

\* the clock reading a stored timestamp was made at
Instant(stamp) == CHOOSE t \in 0..MaxTime : IsoFormat(t) = stamp

ListEntries == IF req.endpoint = "list-drafts" THEN resp.body.drafts ELSE resp.body.roles

\* C9: list-drafts and list-saved-roles return their entries by last-saved
\* time, latest first: of two entries saved at different times, the one
\* saved later comes first.
C9_LatestFirst ==
  Served({"list-drafts", "list-saved-roles"}) =>
     \A i, j \in DOMAIN ListEntries :
        (i < j /\ ListEntries[i].lastSavedAt # ListEntries[j].lastSavedAt) =>
           Instant(ListEntries[i].lastSavedAt) > Instant(ListEntries[j].lastSavedAt)

\* what the sort does establish: the entries are in descending order of
\* their timestamp strings
C9_DescendingStrings ==
  Served({"list-drafts", "list-saved-roles"}) =>
     \A i, j \in DOMAIN ListEntries :
        i < j => ~StrLess(ListEntries[i].lastSavedAt, ListEntries[j].lastSavedAt)

DeleteEndpoints == {"delete-draft", "delete-saved-role"}

\* the request carries no file parameter (or an empty one)
FileMissing == req.body.kind # "json" \/ NoFile(req.body.data)

Refusal == resp.status = 400 /\ resp.body.success = FALSE

TargetGone == (gcs_client /\ ~FileMissing /\ NoFault(ops)) => req.body.data["file"] \notin DOMAIN store

\* C10 as stated: delete-draft and delete-saved-role report success in every
\* case but one, and the target blob is absent afterwards; they report
\* failure (400, success false) if and only if the file parameter is
\* missing from the request.
C10_FailureIffFileMissing ==
  Served(DeleteEndpoints) =>
     /\ Refusal <=> FileMissing
     /\ ~FileMissing => (resp.status = 200 /\ resp.body = [success |-> TRUE])
     /\ TargetGone

\* C10, amended: they report failure (400, success false) if and only if the
\* store client is present and the request has a JSON body without file
\* parameter (or with an empty one); in every other case, the store client
\* absent, no JSON body, the target absent or a store call raising included,
\* they report {success: true}; the target is absent afterwards unless a
\* store call raised.
C10_FailureIffFileMissingAndStore ==
  Served(DeleteEndpoints) =>
     /\ Refusal <=> (gcs_client /\ req.body.kind = "json" /\ NoFile(req.body.data))
     /\ ~Refusal => (resp.status = 200 /\ resp.body = [success |-> TRUE])
     /\ TargetGone

C10_Witness ==
  /\ Served(DeleteEndpoints)
  /\ ~gcs_client
  /\ req.body.kind = "json" /\ NoFile(req.body.data)
  /\ resp.body = [success |-> TRUE]

\* the other cases of C10: a delete that raises is reported as success, and
\* so is the delete of a blob that is there
C10_WitnessRaise ==
  /\ Served({"delete-saved-role"})
  /\ \E i \in DOMAIN ops : ops[i].op = "delete" /\ ops[i].result = "raise"
  /\ resp.body = [success |-> TRUE]

(***************************************************************************)
(* Access Gate: the OAuth routes and the root route.  The session is None  *)
(* when it holds nothing; otherwise it holds the identity under "user"     *)
(* and/or, under "states", the number of sign-ins that were sent to the    *)
(* identity provider and have not come back (each authorize_redirect       *)
(* stores one state value, authorize_access_token consumes the one the     *)
(* callback names and raises when the session does not hold it).           *)
(***************************************************************************)
ALLOWED_DOMAIN == <<"b", "r", "i", "t", "e", ".", "c", "o">>

MaxPending == 2

get_current_user(s) == Get(s, "user", None)

\* the sign-ins of the session that are on their way
States(s) == Get(s, "states", 0)

\* the session that holds the identity user (or none) and n sign-ins under way
SessionOf(user, n) ==
  IF user = None
  THEN IF n = 0 THEN None ELSE [states |-> n]
  ELSE IF n = 0 THEN [user |-> user] ELSE [user |-> user, states |-> n]

\* a response of the gate and the session it leaves
Entered(status, body, s) == [resp |-> [status |-> status, body |-> body], session |-> s]

Redirect(location, s) == Entered(302, [redirect |-> location], s)

\* GET /auth/login
auth_login(s) ==
  IF get_current_user(s) # None
  THEN Redirect("/", s)
  ELSE Redirect("identity provider", SessionOf(None, States(s) + 1))

\* what the identity provider and the client hand to the callback: a state
\* the session does not hold, a failed code exchange, a token without
\* userinfo, or a token with it
Emails ==
  {<<"c", "@">> \o ALLOWED_DOMAIN,
   <<"c", "@", "e", "v", "i", "l", ".", "c", "o">>,
   <<"c", "@", "n", "o", "t">> \o ALLOWED_DOMAIN,
   <<"c", "@">> \o ALLOWED_DOMAIN \o <<".", "e", "v", "i", "l">>}

UserInfos ==
  {[email |-> e, name |-> <<"C">>, picture |-> <<>>] : e \in Emails}
  \cup {[name |-> <<"C">>], [email |-> <<"c", "@">> \o ALLOWED_DOMAIN]}

Tokens ==
  {[kind |-> "mismatch"], [kind |-> "error"], [kind |-> "token", userinfo |-> None]}
  \cup {[kind |-> "token", userinfo |-> u] : u \in UserInfos}

\* email.endswith(f'@{ALLOWED_DOMAIN}')
Allowed(email) == EndsWith(email, <<"@">> \o ALLOWED_DOMAIN)

\* the domain test left out
auth_callback_open(s, token) ==
  LET matched == States(s) > 0 /\ token.kind # "mismatch"
      s1 == IF matched THEN SessionOf(get_current_user(s), States(s) - 1) ELSE s
  IN IF ~matched \/ token.kind = "error"
     THEN Entered(500, [text |-> "Authentication failed"], s1)
     ELSE IF token.userinfo = None
     THEN Entered(400, [text |-> "Failed to get user info"], s1)
     ELSE LET user_info == token.userinfo
              email == Get(user_info, "email", <<>>)
          IN Redirect("/", SessionOf([email |-> email,
                                      name |-> Get(user_info, "name", <<>>),
                                      picture |-> Get(user_info, "picture", <<>>)],
                                     States(s1)))

\* GET /auth/callback
auth_callback(s, token) ==
  LET matched == States(s) > 0 /\ token.kind # "mismatch"
      s1 == IF matched THEN SessionOf(get_current_user(s), States(s) - 1) ELSE s
  IN IF ~matched \/ token.kind = "error"
     THEN Entered(500, [text |-> "Authentication failed"], s1)
     ELSE IF token.userinfo = None
     THEN Entered(400, [text |-> "Failed to get user info"], s1)
     ELSE LET user_info == token.userinfo
              email == Get(user_info, "email", <<>>)
          IN IF ~Allowed(email)
             THEN Entered(403, [text |-> "Access Denied"], s1)
             ELSE Redirect("/", SessionOf([email |-> email,
                                           name |-> Get(user_info, "name", <<>>),
                                           picture |-> Get(user_info, "picture", <<>>)],
                                          States(s1)))

\* GET /auth/logout
auth_logout(s) == Redirect("/auth/login", SessionOf(None, States(s)))

dev_user ==
  [email |-> <<"d", "e", "v", "@">> \o ALLOWED_DOMAIN,
   name |-> <<"L", "o", "c", "a", "l", " ", "D", "e", "v">>, picture |-> <<>>]

\* GET /
serve_index(configured, s) ==
  IF ~configured
  THEN Entered(200, [html |-> "index.html", AUTH_USER |-> dev_user], s)
  ELSE IF get_current_user(s) = None
  THEN Redirect("/auth/login", s)
  ELSE Entered(200, [html |-> "index.html", AUTH_USER |-> get_current_user(s)], s)

(***************************************************************************)
(* The gate and the API behind one server: a client signs in and out,      *)
(* visits the root, and sends API requests, in any order.                  *)
(***************************************************************************)
InitAuth ==
  /\ claude_client = TRUE
  /\ gcs_client = TRUE
  /\ google_client_id \in BOOLEAN
  /\ session = None
  /\ store = <<>>
  /\ now = 0
  /\ req = None
  /\ resp = None
  /\ calls = <<>>
  /\ prompt = None
  /\ ops = <<>>
  /\ text = <<>>
  /\ slug = None

\* the request r is answered as the gate's result h says
Visit(r, h) ==
  /\ resp = None
  /\ req' = r
  /\ resp' = h.resp
  /\ session' = h.session
  /\ ops' = <<>>
  /\ calls' = <<>>
  /\ prompt' = None
  /\ UNCHANGED <<claude_client, gcs_client, google_client_id, store, now, text, slug>>

AuthLogin ==
  /\ get_current_user(session) # None \/ States(session) < MaxPending
  /\ Visit([endpoint |-> "auth-login"], auth_login(session))

\* the identity provider's assertion comes back only for a sign-in that is
\* under way
AuthCallback ==
  \E token \in Tokens :
    /\ token.kind = "token" => States(session) > 0
    /\ Visit([endpoint |-> "auth-callback", token |-> token], auth_callback(session, token))

AuthLogout == Visit([endpoint |-> "auth-logout"], auth_logout(session))

ServeIndex == Visit([endpoint |-> "index"], serve_index(google_client_id, session))

\* one well-formed request for each generation endpoint
GenSamples ==
  {[endpoint |-> "generate-jd",
    body |-> [kind |-> "json", data |-> [title |-> <<"x", " ">>]]],
   [endpoint |-> "adapt-jd",
    body |-> [kind |-> "json", data |-> [original_jd |-> <<"x", " ">>, title |-> <<"x", " ">>]]],
   [endpoint |-> "rewrite-section",
    body |-> [kind |-> "json", data |-> [content |-> <<"x", " ">>, tone |-> <<"x", " ">>]]]}

\* the handler the route of r names
GenHandler(r, parsed, outcome) ==
  CASE r.endpoint = "generate-jd"     -> generate_jd(claude_client, parsed, outcome)
    [] r.endpoint = "adapt-jd"        -> adapt_jd(claude_client, parsed, outcome)
    [] r.endpoint = "rewrite-section" -> rewrite_section(claude_client, parsed, outcome)

\* POST /api/generate-jd, /api/adapt-jd, /api/rewrite-section
Generation ==
  /\ resp = None
  /\ \E r \in GenSamples, outcome \in Outcomes :
       \E parsed \in GetJson(r.body) :
         LET h == GenHandler(r, parsed, outcome)
         IN /\ req' = r
            /\ resp' = h.resp
            /\ calls' = h.calls
            /\ prompt' = h.prompt
            /\ ops' = <<>>
            /\ UNCHANGED <<claude_client, gcs_client, google_client_id, session, store, now,
                           text, slug>>

NextAuth ==
  \/ AuthLogin \/ AuthCallback \/ AuthLogout \/ ServeIndex
  \/ Generation
  \/ SaveDraft \/ SaveRole \/ ListDrafts \/ ListSavedRoles
  \/ LoadDraft \/ LoadSavedRole \/ DeleteDraft \/ DeleteSavedRole
  \/ Return

SpecAuth == InitAuth /\ [][NextAuth]_vars

(***************************************************************************)
(* Properties of the Access Gate                                           *)
(***************************************************************************)
\* the callback being answered carries an asserted email outside the
\* allowed domain
Denied ==
  /\ Served({"auth-callback"})
  /\ req.token.kind = "token"
  /\ req.token.userinfo # None
  /\ ~Allowed(Get(req.token.userinfo, "email", <<>>))

\* C11: a callback whose asserted email does not end with "@" followed by the
\* allowed domain is answered 403 and leaves the session without an identity,
\* whatever the session held before.
C11_DeniedIsAnonymous ==
  Denied => resp.status = 403 /\ get_current_user(session) = None

StoreEndpoints ==
  {"save-draft", "save-role", "list-drafts", "list-saved-roles",
   "load-draft", "load-saved-role", "delete-draft", "delete-saved-role"}

\* C12: when the identity provider is configured, a generation endpoint or a
\* draft/role store endpoint is executed only for a session that holds an
\* authenticated identity.
C12_HandlersBehindGate ==
  google_client_id /\ Served(GenEndpoints \cup StoreEndpoints)
    => get_current_user(session) # None

\* what logout, the root and login answer, by the identity of the session
GateAnswers ==
  /\ Served({"auth-logout"}) =>
        /\ get_current_user(session) = None
        /\ resp = [status |-> 302, body |-> [redirect |-> "/auth/login"]]
  /\ Served({"index"}) =>
        (resp = [status |-> 302, body |-> [redirect |-> "/auth/login"]]
           <=> get_current_user(session) = None)
  /\ Served({"auth-login"}) /\ get_current_user(session) # None =>
        resp = [status |-> 302, body |-> [redirect |-> "/"]]
  /\ Served({"auth-login"}) /\ get_current_user(session) = None =>
        resp = [status |-> 302, body |-> [redirect |-> "identity provider"]]

\* a step gives the session an identity only by answering a callback whose
\* asserted email is in the allowed domain, and the identity is that email's
IdentityByCallback ==
  get_current_user(session') # None /\ get_current_user(session') # get_current_user(session) =>
    /\ req'.endpoint = "auth-callback"
    /\ req'.token.kind = "token"
    /\ req'.token.userinfo # None
    /\ Allowed(Get(req'.token.userinfo, "email", <<>>))
    /\ get_current_user(session').email = Get(req'.token.userinfo, "email", <<>>)
    /\ resp' = [status |-> 302, body |-> [redirect |-> "/"]]

\* C15: with the identity provider configured, the session holds an identity
\* only after a callback whose email matched the allowed domain and no logout
\* since; logout leaves the session without identity and redirects to login;
\* the root redirects to login exactly when the session holds no identity;
\* login from a session with an identity redirects to the root, not to the
\* identity provider.
C15_SessionLifecycle ==
  /\ [](google_client_id => GateAnswers)
  /\ [][google_client_id => IdentityByCallback]_vars

\* a signed-in client asked for the login page and was sent to the root
C15_Witness ==
  /\ google_client_id
  /\ Served({"auth-login"})
  /\ get_current_user(session) # None
  /\ resp.body = [redirect |-> "/"]

(***************************************************************************)
(* Properties of the store endpoints, continued                            *)
(***************************************************************************)
\* C13: while the store client is absent every draft/role endpoint answers
\* without any store operation, whatever the body or query: the lists answer
\* success with an empty list, save-draft, save-role, load-draft and
\* load-saved-role answer 503 with success false (also when the file
\* parameter is missing), and the deletes answer success.
C13_AbsentStoreDegrades ==
  ~gcs_client /\ Served(StoreEndpoints) =>
    /\ ops = <<>>
    /\ CASE req.endpoint = "list-drafts" ->
               resp = [status |-> 200, body |-> [success |-> TRUE, drafts |-> <<>>]]
         [] req.endpoint = "list-saved-roles" ->
               resp = [status |-> 200, body |-> [success |-> TRUE, roles |-> <<>>]]
         [] req.endpoint \in DeleteEndpoints ->
               resp = [status |-> 200, body |-> [success |-> TRUE]]
         [] OTHER -> resp.status = 503 /\ resp.body.success = FALSE

\* a load without a file parameter reached the absent store client
C13_Witness ==
  /\ ~gcs_client
  /\ Served({"load-draft"})
  /\ NoFile(req.args)
  /\ resp.status = 503

(***************************************************************************)
(* The list endpoints over a bucket that other writers filled: blobs that  *)
(* are not JSON, documents without lastSavedAt, documents with a null      *)
(* roleData, and blobs whose name does not end with .json.                 *)
(***************************************************************************)
BucketNames ==
  {DraftsPrefix \o <<"a">> \o DotJson, DraftsPrefix \o <<"b">> \o DotJson,
   DraftsPrefix \o <<"c", ".", "t", "x", "t">>,
   SavedPrefix \o <<"a">> \o DotJson, SavedPrefix \o <<"b">> \o DotJson}

BucketDocs ==
  {DraftDoc([title |-> <<"a">>, savedBy |-> <<"c", "@", "x">>, roleData |-> RoleData], t) :
     t \in 0..1}
  \cup {[invalid |-> TRUE],
        [title |-> <<"a">>, roleData |-> RoleData],
        [title |-> <<"a">>, lastSavedAt |-> IsoFormat(0)],
        DraftDoc([title |-> <<"a">>], 0)}

Buckets ==
  UNION {[names -> BucketDocs] : names \in {ns \in SUBSET BucketNames : Cardinality(ns) <= MaxBlobs}}

InitBucket ==
  /\ claude_client = TRUE
  /\ gcs_client \in BOOLEAN
  /\ google_client_id = TRUE
  /\ session = None
  /\ store \in Buckets
  /\ now = 0
  /\ req = None
  /\ resp = None
  /\ calls = <<>>
  /\ prompt = None
  /\ ops = <<>>
  /\ text = <<>>
  /\ slug = None

NextBucket == ListDrafts \/ ListSavedRoles \/ Return

SpecBucket == InitBucket /\ [][NextBucket]_vars

ListEndpoints == {"list-drafts", "list-saved-roles"}

\* the blobs the listing being answered goes through
Walked ==
  Listed(store, IF req.endpoint = "list-drafts" THEN DraftsPrefix ELSE SavedPrefix)

\* an error occurred while the listing was built: a store call raised, a blob
\* is not JSON, the record of a role could not be built, or the sort compared
\* a missing lastSavedAt
ListError ==
  \/ \E i \in DOMAIN ops : ops[i].result = "raise"
  \/ \E i \in DOMAIN Walked :
       IF req.endpoint = "list-drafts" THEN DraftUnreadable(store[Walked[i]])
       ELSE RoleUnreadable(store[Walked[i]])
  \/ /\ Len(Walked) >= 2
     /\ \E i \in DOMAIN Walked : "lastSavedAt" \notin DOMAIN store[Walked[i]]

\* C14: list-drafts and list-saved-roles answer success with a list for every
\* bucket and every store fault; the list is empty whenever an error
\* occurred, also when other blobs were readable, and carries every listed
\* blob otherwise.
C14_ListsNeverFail ==
  Served(ListEndpoints) =>
    /\ resp.status = 200
    /\ resp.body.success = TRUE
    /\ DOMAIN ListEntries = 1..Len(ListEntries)
    /\ gcs_client /\ ListError => ListEntries = <<>>
    /\ gcs_client /\ ~ListError =>
         /\ Len(ListEntries) = Len(Walked)
         /\ Range(Filenames(ListEntries)) = Range(Walked)

\* a readable draft was downloaded, the next blob is not JSON, and the list
\* is empty
C14_Witness ==
  /\ Served({"list-drafts"})
  /\ Len(ops) = 3
  /\ \A i \in DOMAIN ops : ops[i].result = "ok"
  /\ ~NotJson(store[ops[2].name])
  /\ NotJson(store[ops[3].name])
  /\ ListEntries = <<>>

\* the blobs the request being answered read or deleted
Touched ==
  {ops[i].name : i \in {j \in DOMAIN ops : ops[j].op \in {"download", "delete"} /\ ops[j].result = "ok"}}

\* the blobs under the prefix
Under(st, prefix) == {n \in DOMAIN st : StartsWith(n, prefix)}

\* C16: load-draft and delete-draft read or delete only blobs whose name
\* starts with "drafts/", load-saved-role and delete-saved-role only blobs
\* whose name starts with "saved/"; a delete-draft call leaves the set of
\* blobs under "saved/" as it was.
C16_OwnPrefixOnly ==
  /\ [](Served({"load-draft", "delete-draft"}) =>
          \A n \in Touched : StartsWith(n, DraftsPrefix))
  /\ [](Served({"load-saved-role", "delete-saved-role"}) =>
          \A n \in Touched : StartsWith(n, SavedPrefix))
  /\ [][resp = None /\ resp' # None /\ req'.endpoint = "delete-draft" =>
          Under(store', SavedPrefix) = Under(store, SavedPrefix)]_vars

SaveEndpoints == {"save-draft", "save-role"}

\* the step answers a save request
SaveStep == resp = None /\ resp' # None /\ req'.endpoint \in SaveEndpoints

\* the blob names the step uploaded
Uploaded == {ops'[i].name : i \in {j \in DOMAIN ops' : ops'[j].op = "upload" /\ ops'[j].result = "ok"}}

\* C17: a save call writes the blob an earlier save call wrote only if the
\* two titles have the same slug and the two submitters the same sanitized
\* identifier; calls that differ in either never overwrite each other.
C17_KeysSeparate ==
  [][SaveStep =>
       \A n \in Uploaded \cap DOMAIN store :
         /\ _slugify(store[n].title) = _slugify(Get(req'.body.data, "title", Untitled))
         /\ DotsToHyphens(BeforeAt(store[n].lastSavedBy)) = SavedBy(req'.body.data)]_vars

\* C18: a save-role call that answers failure (500 or 503, success false)
\* leaves the bucket as it was: no blob under "saved/" created or
\* overwritten, no draft deleted; a role blob is written only by a call that
\* answers success.
C18_AllOrNothing ==
  [][resp = None /\ resp' # None /\ req'.endpoint = "save-role" =>
       /\ resp'.body.success = FALSE => store' = store
       /\ Uploaded # {} => resp'.body.success = TRUE]_vars

(***************************************************************************)
(* Slug derivation on its own: Init draws a title, Slugify applies         *)
(* _slugify to it and to its own result.                                   *)
(***************************************************************************)
SlugAlphabet == {"a", "B", "7", " ", "-"}
MaxHead == 1
MaxTail == 2

SeqsUpTo(A, n) == UNION {[1..k -> A] : k \in 0..n}

\* k copies of "a"
Pad(k) == [i \in 1..k |-> "a"]

\* the lengths of the middle part: none, and around the truncation length
PadLens == {0} \cup ((SlugLimit - 3)..(SlugLimit + 1))

SeniorEngineer == <<"S","e","n","i","o","r"," ","E","n","g","i","n","e","e","r","!","!">>
senior_engineer == <<"s","e","n","i","o","r","-","e","n","g","i","n","e","e","r">>

SlugInputs ==
  {h \o Pad(k) \o t : h \in SeqsUpTo(SlugAlphabet, MaxHead),
                      k \in PadLens,
                      t \in SeqsUpTo(SlugAlphabet, MaxTail)}
  \cup {SeniorEngineer}

\* the values of the service's variables before any request
ServiceIdle ==
  /\ claude_client = TRUE
  /\ gcs_client = TRUE
  /\ google_client_id = TRUE
  /\ session = None
  /\ store = <<>>
  /\ now = 0
  /\ req = None
  /\ resp = None
  /\ calls = <<>>
  /\ prompt = None
  /\ ops = <<>>

InitSlug ==
  /\ ServiceIdle
  /\ text \in SlugInputs
  /\ slug = None

Slugify ==
  /\ slug = None
  /\ slug' = [once |-> _slugify(text), twice |-> _slugify(_slugify(text))]
  /\ UNCHANGED <<claude_client, gcs_client, google_client_id, session, store, now, req, resp, calls, prompt, ops, text>>

NextSlug == Slugify

SpecSlug == InitSlug /\ [][NextSlug]_vars

\* C7: for every input t, _slugify(t) has length at most 60, consists only of
\* lowercase letters, digits and hyphens, has no leading and no trailing
\* hyphen, and _slugify(_slugify(t)) = _slugify(t); and
\* _slugify("Senior Engineer!!") = "senior-engineer".
C7_SlugBoundedIdempotent ==
  slug # None =>
    /\ Len(slug.once) <= 60
    /\ \A i \in DOMAIN slug.once : SlugChar(slug.once[i]) \/ slug.once[i] = "-"
    /\ slug.once # <<>> => slug.once[1] # "-" /\ slug.once[Len(slug.once)] # "-"
    /\ slug.twice = slug.once
    /\ text = SeniorEngineer => slug.once = senior_engineer

\* the parts of C7 that the truncation does not disturb
C7_SlugBoundedCharset ==
  slug # None =>
    /\ Len(slug.once) <= 60
    /\ \A i \in DOMAIN slug.once : SlugChar(slug.once[i]) \/ slug.once[i] = "-"
    /\ slug.once # <<>> => slug.once[1] # "-"
    /\ text = SeniorEngineer => slug.once = senior_engineer
    /\ Len(StripChars(SubNonAlnum(Strip(Lower(text))), {"-"})) <= SlugLimit
         => /\ slug.twice = slug.once
            /\ slug.once # <<>> => slug.once[Len(slug.once)] # "-"

====
